---- MODULE Spec2Model ----
(***************************************************************************)
(* A model of boost::container::rope (rope.hpp) and rope_node (node.hpp):  *)
(* a string kept as a binary tree of fragments.  A node is a record        *)
(* [weight, left, right, fragment]; an absent child or root (a null        *)
(* unique_ptr) is Nil.  size_t arithmetic is kept modulo 2^SizeBits.       *)
(* Every helper returns a record whose field st is "ok", "throw" (a        *)
(* std::out_of_range left the function) or "ub" (undefined behaviour: a    *)
(* null handle was dereferenced or a vector was indexed out of bounds).    *)
(***************************************************************************)
EXTENDS Integers, Sequences, FiniteSets, TLC

\* ------------------------------------------------------------------ bounds
\* width of the index type of the model (size_t, kept small)
SizeBits == 4
\* longest string a rope of specification Spec may hold
MaxLen == 3
\* most nodes a rope of specification Spec may have
MaxNodes == 7
\* the same two bounds for specification SpecBalance
BalMaxLen == 7
BalMaxNodes == 9

SizeMod == 2 ^ SizeBits
\* the strings handed to the constructors and to the string overloads
Frags == { <<>>, <<"a">>, <<"b", "c">> }
\* index and length arguments: the small ones, and the ones near SIZE_MAX
\* whose sum with a small one wraps around
IndexArgs == (0 .. MaxLen + 1) \cup { SizeMod - 2, SizeMod - 1 }

Min(a, b) == IF a < b THEN a ELSE b

\* ------------------------------------------------------------- rope_node
Nil == [null |-> TRUE]

Ok(v) == [st |-> "ok", val |-> v]
Throw == [st |-> "throw", val |-> <<>>]
Ub == [st |-> "ub", val |-> <<>>]

\* rope_node(const cont_type& str)
leaf(str) == [weight |-> Len(str), left |-> Nil, right |-> Nil, fragment |-> str]

is_leaf(n) == n.left = Nil /\ n.right = Nil

\* rope_node::length()
RECURSIVE node_length(_)
node_length(n) ==
    IF is_leaf(n) THEN n.weight
    ELSE (n.weight + (IF n.right = Nil THEN 0 ELSE node_length(n.right))) % SizeMod

\* rope_node(handle l, handle r): the weight is read through l
concat(l, r) == [weight |-> node_length(l), left |-> l, right |-> r, fragment |-> <<>>]

\* rope_node(const rope_node&): the deep copy
RECURSIVE copy_node(_)
copy_node(n) ==
    [weight |-> n.weight,
     left |-> IF n.left = Nil THEN Nil ELSE copy_node(n.left),
     right |-> IF n.right = Nil THEN Nil ELSE copy_node(n.right),
     fragment |-> n.fragment]

\* rope_node::tree_to_string()
RECURSIVE tree_to_string(_)
tree_to_string(n) ==
    IF is_leaf(n) THEN n.fragment
    ELSE (IF n.left = Nil THEN <<>> ELSE tree_to_string(n.left))
         \o (IF n.right = Nil THEN <<>> ELSE tree_to_string(n.right))

\* std::basic_string::substr(pos, n) for pos <= size (it throws otherwise)
str_substr(s, pos, n) == SubSeq(s, pos + 1, Min(pos + n, Len(s)))

\* rope_node::get_item_safe(index)
RECURSIVE get_item_safe(_, _)
get_item_safe(n, index) ==
    IF n = Nil THEN Ub
    ELSE IF is_leaf(n)
         THEN IF index >= n.weight THEN Throw ELSE Ok(n.fragment[index + 1])
         ELSE IF index < n.weight
              THEN get_item_safe(n.left, index)
              ELSE get_item_safe(n.right, index - n.weight)

\* rope_node::get_item(index): the unchecked variant
RECURSIVE get_item(_, _)
get_item(n, index) ==
    IF n = Nil THEN Ub
    ELSE IF is_leaf(n)
         THEN IF index >= Len(n.fragment) THEN Ub ELSE Ok(n.fragment[index + 1])
         ELSE IF index < n.weight
              THEN get_item(n.left, index)
              ELSE get_item(n.right, index - n.weight)

\* rope_node::substr(start, len)
RECURSIVE substr(_, _, _)
substr(n, start, len) ==
    LET w == n.weight IN
    IF is_leaf(n)
    THEN IF len < w
         THEN IF start > Len(n.fragment) THEN Throw
              ELSE Ok(str_substr(n.fragment, start, len))
         ELSE Ok(n.fragment)
    ELSE IF start < w
         THEN LET lResult == IF n.left = Nil THEN Ok(<<>>) ELSE substr(n.left, start, len) IN
              IF lResult.st # "ok" THEN lResult
              ELSE IF (start + len) % SizeMod > w
                   THEN LET tmp == w - start
                            rResult == IF n.right = Nil THEN Ok(<<>>)
                                       ELSE substr(n.right, w, (len - tmp) % SizeMod)
                        IN  IF rResult.st # "ok" THEN rResult
                            ELSE Ok(lResult.val \o rResult.val)
                   ELSE lResult
         ELSE IF n.right = Nil THEN Ok(<<>>) ELSE substr(n.right, start - w, len)

\* split, index < w, with the assignment node->weight_ = index left out
split_keep_left_stale(node, index, first) ==
    [node EXCEPT !.right = Nil, !.left = first]

\* split, index < w: the node is reused as the left part
split_keep_left(node, index, first) ==
    [node EXCEPT !.right = Nil, !.weight = index, !.left = first]

SplitRes(s, a, b) == [st |-> s, first |-> a, second |-> b]

\* split, index == w, returning move(node->right_), which oldRight has emptied
split_at_weight_moved(node, oldRight) == SplitRes("ok", node.left, Nil)

\* split, index == w: the two children are the two parts
split_at_weight(node, oldRight) == SplitRes("ok", node.left, oldRight)

\* friend split(handle node, size_t index)
RECURSIVE split(_, _)
split(node, index) ==
    IF node = Nil THEN SplitRes("ub", Nil, Nil)
    ELSE LET w == node.weight IN
         IF is_leaf(node)
         THEN IF index > Len(node.fragment) THEN SplitRes("throw", Nil, Nil)
              ELSE SplitRes("ok",
                            leaf(str_substr(node.fragment, 0, index)),
                            leaf(str_substr(node.fragment, index, (w - index) % SizeMod)))
         ELSE LET oldRight == node.right IN
              IF index < w
              THEN LET splitLeftResult == split(node.left, index) IN
                   IF splitLeftResult.st # "ok" THEN splitLeftResult
                   ELSE IF splitLeftResult.second = Nil THEN SplitRes("ub", Nil, Nil)
                   ELSE SplitRes("ok",
                                 split_keep_left(node, index, splitLeftResult.first),
                                 concat(splitLeftResult.second, oldRight))
              ELSE IF w < index
              THEN LET splitRightResult == split(oldRight, index - w) IN
                   IF splitRightResult.st # "ok" THEN splitRightResult
                   ELSE SplitRes("ok",
                                 [node EXCEPT !.right = splitRightResult.first],
                                 splitRightResult.second)
              ELSE split_at_weight(node, oldRight)

\* rope_node::depth()
RECURSIVE depth(_)
depth(n) ==
    IF is_leaf(n) THEN 0
    ELSE LET lResult == IF n.left = Nil THEN 0 ELSE depth(n.left)
             rResult == IF n.right = Nil THEN 0 ELSE depth(n.right)
         IN  IF lResult > rResult THEN lResult + 1 ELSE rResult + 1

\* rope_node::getLeaves(v): the leaves, left to right
RECURSIVE getLeaves(_)
getLeaves(n) ==
    IF is_leaf(n) THEN << n >>
    ELSE (IF n.left = Nil THEN <<>> ELSE getLeaves(n.left))
         \o (IF n.right = Nil THEN <<>> ELSE getLeaves(n.right))

\* ------------------------------------------------------------------ rope
VARIABLES root, other, op, a1, a2, sarg, pre, ret, status
vars == << root, other, op, a1, a2, sarg, pre, ret, status >>

RopeRes(s, r) == [st |-> s, root |-> r]

\* rope::length()
rope_length(r) == IF r = Nil THEN 0 ELSE node_length(r)

\* rope::to_string()
to_string(r) == IF r = Nil THEN <<>> ELSE tree_to_string(r)

\* fib(n): the loop of the O(log n) algorithm
RECURSIVE fib_loop(_, _, _, _, _, _, _)
fib_loop(n, a, b, c, d, rc, rd) ==
    IF n = 0 THEN rc
    ELSE LET odd == (n % 2) = 1 IN
         fib_loop(n \div 2,
                  a * a + b * c, a * b + b * d, c * a + d * c, c * b + d * d,
                  IF odd THEN rc * a + rd * c ELSE rc,
                  IF odd THEN rc * b + rd * d ELSE rd)

fib(n) == fib_loop(n, 1, 1, 1, 0, 0, 1)

\* build_fib_list(len): the loop
RECURSIVE fib_list_loop(_, _, _, _)
fib_list_loop(a, b, intervals, len) ==
    IF a <= len
    THEN fib_list_loop(b, a + b, IF a > 0 THEN Append(intervals, b) ELSE intervals, len)
    ELSE intervals

build_fib_list(len) == fib_list_loop(0, 1, <<>>, len)

\* rope::is_balanced()
is_balanced(r) ==
    IF r = Nil THEN TRUE ELSE rope_length(r) >= fib(depth(r) + 2)

\* balance: tmp = copy of the slot, acc = copy of acc, acc = concat(tmp, acc)
balance_merge(slot, acc) == concat(copy_node(slot), copy_node(acc))

ScanRes(s, nodes, acc, len, i) ==
    [st |-> s, nodes |-> nodes, acc |-> acc, len |-> len, i |-> i]

\* balance: the inner while, which looks for the slot of acc
RECURSIVE balance_scan(_, _, _, _, _, _)
balance_scan(intervals, max_i, nodes, acc, len, i) ==
    IF i < max_i
    THEN IF i + 1 >= Len(intervals) THEN ScanRes("ub", nodes, acc, len, i)
         ELSE IF len >= intervals[i + 2]
         THEN IF i >= Len(nodes) THEN ScanRes("ub", nodes, acc, len, i)
              ELSE IF nodes[i + 1] # Nil
              THEN LET acc2 == balance_merge(nodes[i + 1], acc)
                       len2 == node_length(acc2)
                   IN  balance_scan(intervals, max_i,
                                    IF len2 >= intervals[i + 2]
                                    THEN [nodes EXCEPT ![i + 1] = Nil] ELSE nodes,
                                    acc2, len2, i + 1)
              ELSE balance_scan(intervals, max_i, nodes, acc, len, i + 1)
         ELSE ScanRes("ok", nodes, acc, len, i)
    ELSE ScanRes("ok", nodes, acc, len, i)

PlaceRes(s, nodes, cm) == [st |-> s, nodes |-> nodes, currMaxInterval |-> cm]

\* balance: the loop while (!inserted)
RECURSIVE balance_place(_, _, _, _, _, _, _)
balance_place(intervals, max_i, nodes, acc, len, i, currMaxInterval) ==
    LET s == balance_scan(intervals, max_i, nodes, acc, len, i) IN
    IF s.st # "ok" \/ s.i >= Len(s.nodes) THEN PlaceRes("ub", s.nodes, currMaxInterval)
    ELSE IF s.nodes[s.i + 1] = Nil
    THEN PlaceRes("ok", [s.nodes EXCEPT ![s.i + 1] = s.acc],
                  IF s.i > currMaxInterval THEN s.i ELSE currMaxInterval)
    ELSE LET acc2 == balance_merge(s.nodes[s.i + 1], s.acc)
             len2 == node_length(acc2)
         IN  IF s.i + 1 >= Len(intervals) THEN PlaceRes("ub", s.nodes, currMaxInterval)
             ELSE balance_place(intervals, max_i,
                                IF len2 >= intervals[s.i + 2]
                                THEN [s.nodes EXCEPT ![s.i + 1] = Nil] ELSE s.nodes,
                                acc2, len2, s.i, currMaxInterval)

\* balance: the loop over the leaves, from leaf number k on
RECURSIVE balance_leaves(_, _, _, _, _)
balance_leaves(intervals, max_i, leaves, k, state) ==
    IF k > Len(leaves) \/ state.st # "ok" THEN state
    ELSE LET len == node_length(leaves[k]) IN
         balance_leaves(intervals, max_i, leaves, k + 1,
                        IF len > 0
                        THEN balance_place(intervals, max_i, state.nodes,
                                           copy_node(leaves[k]), len, 0,
                                           state.currMaxInterval)
                        ELSE state)

\* balance: the final loop, which concatenates the remaining slots
RECURSIVE balance_fold(_, _, _)
balance_fold(nodes, acc, idx) ==
    IF idx < 0 THEN RopeRes("ok", acc)
    ELSE IF nodes[idx + 1] # Nil
    THEN IF acc = Nil THEN RopeRes("ub", Nil)
         ELSE balance_fold(nodes, concat(acc, copy_node(nodes[idx + 1])), idx - 1)
    ELSE balance_fold(nodes, acc, idx - 1)

\* rope::balance()
rope_balance(r) ==
    IF is_balanced(r) THEN RopeRes("ok", r)
    ELSE LET intervals == build_fib_list(rope_length(r))
             empty == [k \in 1 .. Len(intervals) |-> Nil]
             max_i == (Len(intervals) - 1) % SizeMod
             filled == balance_leaves(intervals, max_i, getLeaves(r), 1,
                                      PlaceRes("ok", empty, 0))
         IN  IF filled.st # "ok" THEN RopeRes("ub", r)
             ELSE IF filled.currMaxInterval >= Len(filled.nodes) THEN RopeRes("ub", r)
             ELSE balance_fold([filled.nodes EXCEPT ![filled.currMaxInterval + 1] = Nil],
                               filled.nodes[filled.currMaxInterval + 1],
                               filled.currMaxInterval)

\* rope(const rope& r): the node is copied twice
rope_copy(r) == copy_node(copy_node(r))

\* rope::at(index) calling the unchecked rope_node::get_item
rope_at_unchecked(r, index) ==
    IF r = Nil THEN Throw ELSE get_item(r, index)

\* rope::at(index); getCharByIndex is rope_node::get_item_safe
rope_at(r, index) ==
    IF r = Nil THEN Throw ELSE get_item_safe(r, index)

\* rope::substr(start, len); getSubstring is rope_node::substr
rope_substr(r, start, len) ==
    LET actualLength == rope_length(r) IN
    IF start > actualLength \/ (start + len) % SizeMod > actualLength THEN Throw
    ELSE IF r = Nil THEN Ub
    ELSE substr(r, start, len)

\* rope::insert(i, const rope& r), s being r's root
rope_insert(r, i, s) ==
    IF rope_length(r) < i THEN RopeRes("throw", r)
    ELSE IF s = Nil THEN RopeRes("ub", r)
    ELSE LET tmp == rope_copy(s)
             origRopeSplit == split(r, i)
         IN  IF origRopeSplit.st = "throw" THEN RopeRes("throw", Nil)
             ELSE IF origRopeSplit.st = "ub" \/ origRopeSplit.first = Nil
             THEN RopeRes("ub", Nil)
             ELSE RopeRes("ok", concat(concat(origRopeSplit.first, tmp),
                                       origRopeSplit.second))

\* rope::append(const cont_type& str)
rope_append_str(r, str) ==
    IF r = Nil THEN RopeRes("ub", r)
    ELSE RopeRes("ok", concat(r, leaf(str)))

\* rope::append(const rope& r), s being r's root
rope_append(r, s) ==
    IF s = Nil \/ r = Nil THEN RopeRes("ub", r)
    ELSE RopeRes("ok", concat(r, rope_copy(s)))

\* rope::erase(start, len)
rope_erase(r, start, len) ==
    LET actualLength == rope_length(r) IN
    IF start > actualLength \/ (start + len) % SizeMod > actualLength
    THEN RopeRes("throw", r)
    ELSE LET firstSplit == split(r, start) IN
         IF firstSplit.st # "ok" THEN RopeRes(firstSplit.st, Nil)
         ELSE LET secondSplit == split(firstSplit.second, len) IN
              IF secondSplit.st # "ok" THEN RopeRes(secondSplit.st, Nil)
              ELSE IF firstSplit.first = Nil THEN RopeRes("ub", Nil)
              ELSE RopeRes("ok", concat(firstSplit.first, secondSplit.second))

\* rope& operator=(const rope& rhs), s being rhs's root
rope_assign(r, s) ==
    IF s = Nil THEN RopeRes("ub", Nil) ELSE RopeRes("ok", copy_node(s))

RECURSIVE node_count(_)
node_count(n) ==
    IF n = Nil THEN 0 ELSE 1 + node_count(n.left) + node_count(n.right)

\* the rope stays within the bounds of the model
Fits(r, maxLen, maxNodes) == rope_length(r) <= maxLen /\ node_count(r) <= maxNodes

\* ---------------------------------------------------------------- actions
\* One call of a member function: the call and its arguments are recorded in
\* op, a1, a2, sarg, the rope before it in pre, what it returned in ret and how
\* it ended in status.  After undefined behaviour the root is any of the
\* values the call may have left, and nothing more is run.  A call starts
\* once the caller has dropped the record of the call before (Return).
Call(o, x, y, s, res, v) ==
    /\ op = "none"
    /\ op' = o /\ a1' = x /\ a2' = y /\ sarg' = s
    /\ pre' = root
    /\ status' = res.st
    /\ ret' = v
    /\ root' \in (IF res.st = "ub" THEN {root, Nil} ELSE {res.root})
    /\ other' = other

Query(o, x, y, res) ==
    Call(o, x, y, <<>>, RopeRes(res.st, root), res.val)

At(index) == Query("at", index, 0, rope_at(root, index))

Substr(start, len) == Query("substr", start, len, rope_substr(root, start, len))

InsertStr(i, str) ==
    Call("insert", i, 0, str, rope_insert(root, i, leaf(str)), <<>>)

InsertRope(i) ==
    Call("insert", i, 0, to_string(other), rope_insert(root, i, other), <<>>)

AppendStr(str) ==
    Call("append", 0, 0, str, rope_append_str(root, str), <<>>)

AppendRope ==
    Call("append", 0, 0, to_string(other), rope_append(root, other), <<>>)

Erase(start, len) ==
    Call("erase", start, len, <<>>, rope_erase(root, start, len), <<>>)

Balance == Call("balance", 0, 0, <<>>, rope_balance(root), <<>>)

Assign == Call("copy", 0, 0, to_string(other), rope_assign(root, other), <<>>)

\* the caller goes on after a call that returned or threw
Return ==
    /\ op # "none" /\ status # "ub"
    /\ op' = "none" /\ a1' = 0 /\ a2' = 0 /\ sarg' = <<>>
    /\ pre' = Nil /\ ret' = <<>> /\ status' = "ok"
    /\ UNCHANGED << root, other >>

\* the rope handed to the rope overloads: rope("c") with "d" appended
SecondRope == concat(leaf(<< "c" >>), leaf(<< "d" >>))

\* rope(str) and rope()
Init ==
    /\ root \in { leaf(str) : str \in Frags }
    /\ other = SecondRope
    /\ op = "construct" /\ a1 = 0 /\ a2 = 0 /\ sarg = to_string(root)
    /\ pre = Nil /\ ret = <<>> /\ status = "ok"

Next ==
    \/ \E i \in IndexArgs : At(i)
    \/ \E s \in IndexArgs, l \in IndexArgs : Substr(s, l)
    \/ \E i \in IndexArgs, str \in Frags : InsertStr(i, str) /\ Fits(root', MaxLen, MaxNodes)
    \/ \E i \in IndexArgs : InsertRope(i) /\ Fits(root', MaxLen, MaxNodes)
    \/ \E str \in Frags : AppendStr(str) /\ Fits(root', MaxLen, MaxNodes)
    \/ AppendRope /\ Fits(root', MaxLen, MaxNodes)
    \/ \E s \in IndexArgs, l \in IndexArgs : Erase(s, l) /\ Fits(root', MaxLen, MaxNodes)
    \/ Balance /\ Fits(root', MaxLen, MaxNodes)
    \/ Assign
    \/ Return

Spec == Init /\ [][Next]_vars

\* ropes built by appending strings, then balanced
NextBalance ==
    \/ \E str \in Frags : AppendStr(str) /\ Fits(root', BalMaxLen, BalMaxNodes)
    \/ Balance /\ Fits(root', BalMaxLen, BalMaxNodes)
    \/ Return

SpecBalance == Init /\ [][NextBalance]_vars

\* the caller goes on only after a call that succeeded: every rope a call
\* starts from is the result of successful calls alone
NextSuccess ==
    \/ \E i \in IndexArgs : At(i)
    \/ \E s \in IndexArgs, l \in IndexArgs : Substr(s, l)
    \/ \E i \in IndexArgs, str \in Frags : InsertStr(i, str) /\ Fits(root', MaxLen, MaxNodes)
    \/ \E i \in IndexArgs : InsertRope(i) /\ Fits(root', MaxLen, MaxNodes)
    \/ \E str \in Frags : AppendStr(str) /\ Fits(root', MaxLen, MaxNodes)
    \/ AppendRope /\ Fits(root', MaxLen, MaxNodes)
    \/ \E s \in IndexArgs, l \in IndexArgs : Erase(s, l) /\ Fits(root', MaxLen, MaxNodes)
    \/ Balance /\ Fits(root', MaxLen, MaxNodes)
    \/ Assign
    \/ status = "ok" /\ Return

SpecSuccess == Init /\ [][NextSuccess]_vars

\* ----------------------------------------------------------- the claims
\* the nodes of a tree
RECURSIVE Subtrees(_)
Subtrees(n) ==
    IF n = Nil THEN {} ELSE {n} \cup Subtrees(n.left) \cup Subtrees(n.right)

\* the string before the call, and the elements i+1 .. j of a string
Before == to_string(pre)
Slice(s, i, j) == [k \in 1 .. (IF j > i THEN j - i ELSE 0) |-> s[i + k]]

\* C1: substr(start, len) with start <= length and start + len <= length returns
\* exactly the len elements of to_string() from position start on.
C1_SubstrExact ==
    (op = "substr" /\ a1 <= Len(Before) /\ a1 + a2 <= Len(Before))
        => (status = "ok" /\ ret = Slice(Before, a1, a1 + a2))

\* C2: insert(i, S) with i <= length succeeds, the string becomes
\* s[0..i) ++ t ++ s[i..), the length |s| + |t|, and S is unchanged.
C2_InsertExact ==
    (op = "insert" /\ a1 <= Len(Before))
        => /\ status = "ok"
           /\ to_string(root) = Slice(Before, 0, a1) \o sarg \o Slice(Before, a1, Len(Before))
           /\ rope_length(root) = Len(Before) + Len(sarg)
           /\ other = SecondRope

\* C3: erase(start, len) with start <= length and start + len <= length succeeds,
\* the string becomes s[0..start) ++ s[start+len..) and the length |s| - len; and
\* erase(i, length(S)) right after insert(i, S) gives back the string before.
C3_EraseExact ==
    /\ (op = "erase" /\ a1 <= Len(Before) /\ a1 + a2 <= Len(Before))
        => /\ status = "ok"
           /\ to_string(root) = Slice(Before, 0, a1) \o Slice(Before, a1 + a2, Len(Before))
           /\ rope_length(root) = Len(Before) - a2
    /\ (op = "insert" /\ status = "ok")
        => LET back == rope_erase(root, a1, Len(sarg)) IN
           back.st = "ok" /\ to_string(back.root) = Before

\* C4: balance() completes on every rope, the empty one included, and leaves
\* to_string() and length() unchanged.
C4_BalanceKeepsString ==
    op = "balance"
        => /\ status = "ok"
           /\ to_string(root) = Before
           /\ rope_length(root) = rope_length(pre)

\* C5: after balance() returns, and after a second call, is_balanced() is true:
\* the root is absent or length >= Fib(depth(root) + 2).
C5_BalanceBalances ==
    (op = "balance" /\ status = "ok")
        => /\ is_balanced(root)
           /\ LET again == rope_balance(root) IN
              again.st = "ok" => is_balanced(again.root)

\* C6: at(index) raises OutOfRange when index >= length and leaves the rope as
\* it was; otherwise it returns to_string()[index], which is substr(index, 1)[0].
C6_AtChecked ==
    op = "at"
        => IF a1 >= Len(Before)
           THEN status = "throw" /\ root = pre
           ELSE /\ status = "ok"
                /\ ret = Before[a1 + 1]
                /\ rope_substr(pre, a1, 1) = Ok(<< ret >>)

\* C6 happens: at() went into the right subtree of an internal root and
\* returned an element.
C6_Witness ==
    /\ op = "at" /\ status = "ok"
    /\ ~is_leaf(pre) /\ pre.weight > 0 /\ a1 >= pre.weight

\* C7: whenever at, substr, insert or erase fails with OutOfRange, the rope is
\* unmodified: the root, and so to_string() and length(), is the one before the
\* call.
C7_FailureLeavesRope ==
    (op \in {"at", "substr", "insert", "erase"} /\ status = "throw")
        => root = pre

\* C8: for every node N of the rope and every index <= N.length(), split(N, index)
\* returns two present nodes, the first holding the first index elements of N's
\* string and the second the rest, their lengths adding up to N.length().
C8_SplitTwoParts ==
    status # "ub" =>
        \A N \in Subtrees(root) : \A index \in 0 .. node_length(N) :
            LET s == split(N, index)
                str == tree_to_string(N)
            IN  /\ s.st = "ok"
                /\ s.first # Nil /\ s.second # Nil
                /\ to_string(s.first) = Slice(str, 0, index)
                /\ to_string(s.second) = Slice(str, index, Len(str))
                /\ node_length(s.first) + node_length(s.second) = node_length(N)

\* C9: after every operation, every node has both children absent or both
\* present.
C9_NoSingleChild ==
    status # "ub" =>
        \A N \in Subtrees(root) : (N.left = Nil) <=> (N.right = Nil)

\* C10: after every operation, a leaf's weight is the length of its fragment, a
\* non-leaf node has an empty fragment and the length of its left subtree's
\* string as weight, and root.length() is the length of to_string().
C10_Weights ==
    status # "ub" =>
        /\ \A N \in Subtrees(root) :
              IF is_leaf(N) THEN N.weight = Len(N.fragment)
              ELSE N.fragment = <<>> /\ N.weight = Len(to_string(N.left))
        /\ rope_length(root) = Len(to_string(root))

\* C10 happens: an insert or erase split an internal node inside its left
\* subtree and kept the node, with its weight lowered, in the new tree.
C10_Witness ==
    /\ op \in {"insert", "erase"} /\ status = "ok"
    /\ \E N \in Subtrees(root) : ~is_leaf(N) /\ N.right = Nil /\ N.weight > 0
    /\ \E N \in Subtrees(pre) : ~is_leaf(N) /\ N.weight > 1

\* split(node, index) and every split it calls is handed a present node and
\* returns a present left part, and the concat constructor it calls gets a
\* present left child
RECURSIVE SplitSafe(_, _)
SplitSafe(node, index) ==
    /\ node # Nil
    /\ LET r == split(node, index) IN r.st = "ok" /\ r.first # Nil
    /\ IF is_leaf(node) THEN TRUE
       ELSE IF index < node.weight
            THEN SplitSafe(node.left, index) /\ split(node.left, index).second # Nil
            ELSE IF node.weight < index
                 THEN SplitSafe(node.right, index - node.weight)
                 ELSE TRUE

\* C11: in every rope reached from the constructors by successful calls alone
\* the root is present, and an insert or erase with in-range arguments never
\* dereferences an absent node: each split is handed a present node and returns
\* a present left part, the top-level splits return a present right part, and
\* concat is never given an absent left child.
C11_NoAbsentNode ==
    /\ status = "ok" => root # Nil
    /\ (op = "insert" /\ a1 <= Len(Before))
        => /\ status = "ok"
           /\ SplitSafe(pre, a1)
           /\ split(pre, a1).second # Nil
    /\ (op = "erase" /\ a1 <= Len(Before) /\ a1 + a2 <= Len(Before))
        => /\ status = "ok"
           /\ SplitSafe(pre, a1)
           /\ LET firstSplit == split(pre, a1) IN
              /\ firstSplit.second # Nil
              /\ SplitSafe(firstSplit.second, a2)
              /\ split(firstSplit.second, a2).second # Nil

\* C11 happens: erase(length(), 0) and insert(length(), S) succeeded on a rope
\* of length > 0 that holds a node with a left child only.
C11_Witness ==
    /\ op \in {"insert", "erase"} /\ status = "ok"
    /\ a1 = Len(Before) /\ a2 = 0 /\ Len(Before) > 0
    /\ \E N \in Subtrees(pre) : ~is_leaf(N) /\ N.right = Nil

====
